---------------------------- MODULE Spec2Model ----------------------------
(***************************************************************************)
(* System API (Eigen OS, MVP skeleton): request validation, structured     *)
(* INVALID_ARGUMENT errors, per-request observability context and the      *)
(* handlers of JobService / DeviceService, together with the example       *)
(* skeleton servers that answer UNIMPLEMENTED.                             *)
(*                                                                         *)
(* Strings whose only observed property is emptiness (name, target,        *)
(* job_id, ...) are TLA+ strings.  Header values, which the code matches   *)
(* against a regular expression, are sequences of one-character strings.   *)
(***************************************************************************)
EXTENDS Integers, Sequences, FiniteSets, TLC

VARIABLES calls, log

vars == <<calls, log>>

(***************************************************************************)
(* Bounds of the model.                                                    *)
(***************************************************************************)
\* ttl_seconds ranges over -MaxTtl .. MaxTtl
MaxTtl == 2
\* last_event_seq ranges over -MaxSeq .. MaxSeq
MaxSeq == 4

\* The in-flight calls of the model.
Calls == {"c1"}

\* Python's None (never equal to a header value: "None" is not one character).
None == <<"None">>

(***************************************************************************)
(* errors.py                                                               *)
(***************************************************************************)
FieldViolation(field, description) ==
    [field |-> field, description |-> description]

\* grpc.StatusCode.value[0] of the codes the program uses.
StatusCodeValue ==
    [OK |-> 0, INVALID_ARGUMENT |-> 3, UNIMPLEMENTED |-> 12]

grpc_code_int(code) == StatusCodeValue[code]

\* rpc_status.to_status: the integer code of a google.rpc.Status back to a
\* grpc.StatusCode.
StatusCodeOfInt(n) ==
    CHOOSE name \in DOMAIN StatusCodeValue : StatusCodeValue[name] = n

\* The state of a grpc.ServicerContext the handlers can change: the status
\* the call is terminated with (code, message, BadRequest field violations),
\* every termination performed on it, and whether the terminating exception
\* is propagating out of the handler.
NewContext ==
    [code |-> "NONE", message |-> "", details |-> <<>>,
     aborts |-> <<>>, reported |-> <<>>, raised |-> FALSE]

\* Variant: the status is recorded but nothing is raised, so the caller goes on.
abort_with_status_returns(context, status) ==
    [context EXCEPT !.code = status.code,
                    !.message = status.message,
                    !.details = status.details,
                    !.aborts = Append(@, status)]

\* context.abort_with_status(status): records the status on the call and
\* raises, so the statement after it in the caller never runs.
abort_with_status(context, status) ==
    [context EXCEPT !.code = status.code,
                    !.message = status.message,
                    !.details = status.details,
                    !.aborts = Append(@, status),
                    !.raised = TRUE]

\* context.abort(code, details): status with a message only; raises.
abort(context, code, message) ==
    abort_with_status(context, [code |-> code, message |-> message, details |-> <<>>])

\* Variant: the BadRequest is built without its field violations.
abort_invalid_argument_no_details(context, message, violations) ==
    abort_with_status(
        [context EXCEPT !.reported = Append(@, violations)],
        [code |-> StatusCodeOfInt(grpc_code_int("INVALID_ARGUMENT")),
         message |-> message, details |-> <<>>])

\* BadRequest(field_violations=[FieldViolation(field=v.field,
\* description=v.description) for v in violations]), packed as the single
\* detail of a Status with code INVALID_ARGUMENT, then abort_with_status.
abort_invalid_argument(context, message, violations) ==
    LET bad_request ==
            [i \in 1..Len(violations) |->
                [field |-> violations[i].field,
                 description |-> violations[i].description]]
        st == [code |-> grpc_code_int("INVALID_ARGUMENT"),
               message |-> message,
               details |-> bad_request]
        status == [code |-> StatusCodeOfInt(st.code),
                   message |-> st.message,
                   details |-> st.details]
    IN  abort_with_status(
            [context EXCEPT !.reported = Append(@, violations)], status)

required_string(value, field) ==
    IF value = "" THEN <<FieldViolation(field, "field is required")>> ELSE <<>>

\* Variant: "value < 0", which lets zero through.
positive_int_lt(value, field) ==
    IF value < 0 THEN <<FieldViolation(field, "must be > 0")>> ELSE <<>>

positive_int(value, field) ==
    IF value <= 0 THEN <<FieldViolation(field, "must be > 0")>> ELSE <<>>

(***************************************************************************)
(* validation.py                                                           *)
(***************************************************************************)
\* Variant: the oneof is never asked which variant is set; the first variant
\* is checked instead.
validate_submit_job_no_oneof(req) ==
    required_string(req.name, "name")
        \o required_string(req.target, "target")
        \o required_string(req.eigen_lang.entrypoint, "eigen_lang.entrypoint")
        \o (IF req.eigen_lang.source = ""
            THEN <<FieldViolation("eigen_lang.source", "source must be non-empty")>>
            ELSE <<>>)

\* Variant: stops at the first failed check.
validate_submit_job_first_only(req) ==
    IF req.name = "" THEN required_string(req.name, "name")
    ELSE IF req.target = "" THEN required_string(req.target, "target")
    ELSE IF req.program = "None"
    THEN <<FieldViolation("program", "oneof program is required")>>
    ELSE IF req.program = "eigen_lang"
    THEN IF req.eigen_lang.entrypoint = ""
         THEN required_string(req.eigen_lang.entrypoint, "eigen_lang.entrypoint")
         ELSE IF req.eigen_lang.source = ""
         THEN <<FieldViolation("eigen_lang.source", "source must be non-empty")>>
         ELSE <<>>
    ELSE IF req.program = "qasm"
    THEN IF req.qasm.source = ""
         THEN <<FieldViolation("qasm.source", "source must be non-empty")>>
         ELSE required_string(req.qasm.version, "qasm.version")
    ELSE required_string(req.aqo_ref.qfs_ref, "aqo_ref.qfs_ref")

validate_submit_job(req) ==
    LET v1 == required_string(req.name, "name")
        v2 == v1 \o required_string(req.target, "target")
        program == req.program
    IN  IF program = "None"
        THEN Append(v2, FieldViolation("program", "oneof program is required"))
        ELSE IF program = "eigen_lang"
        THEN LET v3 == v2 \o required_string(req.eigen_lang.entrypoint,
                                             "eigen_lang.entrypoint")
             IN  IF req.eigen_lang.source = ""
                 THEN Append(v3, FieldViolation("eigen_lang.source",
                                                "source must be non-empty"))
                 ELSE v3
        ELSE IF program = "qasm"
        THEN LET v3 == IF req.qasm.source = ""
                       THEN Append(v2, FieldViolation("qasm.source",
                                                      "source must be non-empty"))
                       ELSE v2
             IN  v3 \o required_string(req.qasm.version, "qasm.version")
        ELSE IF program = "aqo_ref"
        THEN v2 \o required_string(req.aqo_ref.qfs_ref, "aqo_ref.qfs_ref")
        ELSE v2

\* getattr(req, field_name, "")
getattr(req, field_name) ==
    IF field_name \in DOMAIN req THEN req[field_name] ELSE ""

validate_job_id(req) == required_string(getattr(req, "job_id"), "job_id")

\* Variant: the violation names the job_id field.
validate_device_id_as_job_id(req) ==
    required_string(getattr(req, "device_id"), "job_id")

validate_device_id(req) == required_string(getattr(req, "device_id"), "device_id")

validate_reserve_device(req) ==
    required_string(req.device_id, "device_id")
        \o positive_int(req.ttl_seconds, "ttl_seconds")

(***************************************************************************)
(* observability.py                                                        *)
(***************************************************************************)
HexDigits ==
    {"0", "1", "2", "3", "4", "5", "6", "7", "8", "9",
     "a", "b", "c", "d", "e", "f"}

AllHex(s, i, j) == \A k \in i..j : s[k] \in HexDigits

\* Variant: the pattern without its final "$", so that text may follow.
TRACEPARENT_RE_unanchored(s) ==
    IF /\ Len(s) >= 55
       /\ AllHex(s, 1, 2)   /\ s[3] = "-"
       /\ AllHex(s, 4, 35)  /\ s[36] = "-"
       /\ AllHex(s, 37, 52) /\ s[53] = "-"
       /\ AllHex(s, 54, 55)
    THEN [matched |-> TRUE,
          version |-> SubSeq(s, 1, 2), trace_id |-> SubSeq(s, 4, 35),
          span_id |-> SubSeq(s, 37, 52), trace_flags |-> SubSeq(s, 54, 55)]
    ELSE [matched |-> FALSE]

\* _TRACEPARENT_RE.match(s): the named groups when s matches (matched), no
\* match otherwise.  "$" also matches just before a final newline.
TRACEPARENT_RE(s) ==
    IF /\ (Len(s) = 55 \/ (Len(s) = 56 /\ s[56] = "\n"))
       /\ AllHex(s, 1, 2)   /\ s[3] = "-"
       /\ AllHex(s, 4, 35)  /\ s[36] = "-"
       /\ AllHex(s, 37, 52) /\ s[53] = "-"
       /\ AllHex(s, 54, 55)
    THEN [matched |-> TRUE,
          version |-> SubSeq(s, 1, 2), trace_id |-> SubSeq(s, 4, 35),
          span_id |-> SubSeq(s, 37, 52), trace_flags |-> SubSeq(s, 54, 55)]
    ELSE [matched |-> FALSE]

\* str.lower() on the header names the model uses.
Lower(k) ==
    CASE k = "TraceParent" -> "traceparent"
      [] k = "Trace_Id" -> "trace_id"
      [] OTHER -> k

\* {k.lower(): v for (k, v) in metadata}.get(key): the value of the last
\* pair whose lower-cased name is key, None when there is none.
MdGet(metadata, key) ==
    LET hits == {i \in 1..Len(metadata) : Lower(metadata[i][1]) = key}
    IN  IF hits = {} THEN None
        ELSE metadata[CHOOSE i \in hits : \A j \in hits : j <= i][2]

RequestContext(request_id, traceparent, trace_id) ==
    [request_id |-> request_id, traceparent |-> traceparent, trace_id |-> trace_id]

\* Variant: m.group("span_id") is taken for the trace id.
new_request_context_span_group(metadata, uuid4) ==
    LET traceparent == MdGet(metadata, "traceparent")
        trace_id == MdGet(metadata, "trace_id")
        try == trace_id = None /\ traceparent # None /\ traceparent # <<>>
    IN  RequestContext(
            uuid4,
            traceparent,
            IF try /\ TRACEPARENT_RE(traceparent).matched
            THEN TRACEPARENT_RE(traceparent).span_id
            ELSE trace_id)

\* Variant: a traceparent that matches wins over the trace_id header.
new_request_context_traceparent_first(metadata, uuid4) ==
    LET traceparent == MdGet(metadata, "traceparent")
        trace_id == MdGet(metadata, "trace_id")
        try == traceparent # None /\ traceparent # <<>>
    IN  RequestContext(
            uuid4,
            traceparent,
            IF try /\ TRACEPARENT_RE(traceparent).matched
            THEN TRACEPARENT_RE(traceparent).trace_id
            ELSE trace_id)

\* uuid4 is the freshly generated request id.
new_request_context(metadata, uuid4) ==
    LET traceparent == MdGet(metadata, "traceparent")
        trace_id == MdGet(metadata, "trace_id")
        \* "if trace_id is None and traceparent": None and "" are falsy
        try == trace_id = None /\ traceparent # None /\ traceparent # <<>>
    IN  RequestContext(
            uuid4,
            traceparent,
            IF try /\ TRACEPARENT_RE(traceparent).matched
            THEN TRACEPARENT_RE(traceparent).trace_id
            ELSE trace_id)

log_request_start(method, rc) ==
    [event |-> "rpc_start", method |-> method, request_id |-> rc.request_id,
     trace_id |-> rc.trace_id, traceparent |-> rc.traceparent]

log_request_end(method, rc) ==
    [event |-> "rpc_end", method |-> method, request_id |-> rc.request_id,
     trace_id |-> rc.trace_id]

(***************************************************************************)
(* Inputs: requests and call metadata.                                     *)
(***************************************************************************)
Strs == {"", "x"}

Ids == {"", "j1"}

\* SubmitJobRequest: a oneof "program" has at most one variant set, and the
\* variants that are not set read as their defaults.
EigenLangDefault == [entrypoint |-> "", source |-> ""]

QasmDefault == [source |-> "", version |-> ""]

AqoRefDefault == [qfs_ref |-> ""]

SubmitJobRequest ==
    {[name |-> n, target |-> t, program |-> "None", eigen_lang |-> EigenLangDefault,
      qasm |-> QasmDefault, aqo_ref |-> AqoRefDefault] : n \in Strs, t \in Strs}
    \cup
    {[name |-> n, target |-> t, program |-> "eigen_lang",
      eigen_lang |-> [entrypoint |-> e, source |-> s],
      qasm |-> QasmDefault, aqo_ref |-> AqoRefDefault] :
        n \in Strs, t \in Strs, e \in Strs, s \in Strs}
    \cup
    {[name |-> n, target |-> t, program |-> "qasm", eigen_lang |-> EigenLangDefault,
      qasm |-> [source |-> s, version |-> v], aqo_ref |-> AqoRefDefault] :
        n \in Strs, t \in Strs, s \in Strs, v \in Strs}
    \cup
    {[name |-> n, target |-> t, program |-> "aqo_ref", eigen_lang |-> EigenLangDefault,
      qasm |-> QasmDefault, aqo_ref |-> [qfs_ref |-> q]] :
        n \in Strs, t \in Strs, q \in Strs}

JobIdRequest == {[job_id |-> j] : j \in Ids}

StreamJobUpdatesRequest ==
    {[job_id |-> j, last_event_seq |-> n] : j \in Ids, n \in -MaxSeq..MaxSeq}

ListDevicesRequest == {[backend_type |-> b] : b \in Strs}

DeviceIdRequest == {[device_id |-> d] : d \in Ids}

ReserveDeviceRequest ==
    {[device_id |-> d, ttl_seconds |-> n] : d \in Ids, n \in -MaxTtl..MaxTtl}

Rep(ch, n) == [i \in 1..n |-> ch]

\* "00-aaaaaaaaaaaaaaaaaaaaaaaaaaaaaaaa-bbbbbbbbbbbbbbbb-01"
TpWellFormed ==
    <<"0", "0", "-">> \o Rep("a", 32) \o <<"-">> \o Rep("b", 16) \o <<"-", "0", "1">>

\* trace id of 31 digits: wrong length
TpShort ==
    <<"0", "0", "-">> \o Rep("a", 31) \o <<"-">> \o Rep("b", 16) \o <<"-", "0", "1">>

\* upper-case digits are not in [0-9a-f]
TpUpper ==
    <<"0", "0", "-">> \o Rep("A", 32) \o <<"-">> \o Rep("b", 16) \o <<"-", "0", "1">>

\* version-traceid-spanid-flags joined by the separator sep
Tp(version, trace, span, flags, sep) ==
    version \o <<sep>> \o trace \o <<sep>> \o span \o <<sep>> \o flags

\* values of the traceparent header that match the format
TpMatching ==
    {TpWellFormed,
     Tp(<<"0", "0">>, Rep("0", 16) \o Rep("f", 16), Rep("9", 16), <<"0", "1">>, "-"),
     Tp(<<"0", "0">>, Rep("3", 31) \o <<"c">>, Rep("d", 16), <<"0", "1">>, "-"),
     Tp(<<"f", "f">>, Rep("e", 32), Rep("1", 16), <<"0", "0">>, "-")}

\* values that do not: wrong lengths, characters outside [0-9a-f], wrong
\* separator, a missing group, text before or after, the empty string
TpNotMatching ==
    {TpShort,
     TpUpper,
     Tp(<<"0", "0">>, Rep("a", 33), Rep("b", 16), <<"0", "1">>, "-"),
     Tp(<<"0", "0">>, Rep("a", 32), Rep("b", 15), <<"0", "1">>, "-"),
     Tp(<<"0">>, Rep("a", 32), Rep("b", 16), <<"0", "1">>, "-"),
     Tp(<<"0", "0">>, Rep("g", 32), Rep("b", 16), <<"0", "1">>, "-"),
     Tp(<<"0", "0">>, Rep("a", 32), Rep("b", 16), <<"0", "1">>, "_"),
     <<"0", "0", "-">> \o Rep("a", 32) \o <<"-">> \o Rep("b", 16),
     TpWellFormed \o <<"-", "x">>,
     <<" ">> \o TpWellFormed,
     <<"x">>,
     <<>>}

TraceIdHeader == <<"t", "1">>

\* values of the trace_id header: short text, 32 hex digits, the empty string
TraceIdValues == {TraceIdHeader, Rep("c", 32), <<>>}

\* the (name, value) pairs of the headers that are present
Md(traceparent, trace_id) ==
    (IF traceparent = None THEN <<>> ELSE <<<<"traceparent", traceparent>>>>)
    \o (IF trace_id = None THEN <<>> ELSE <<<<"trace_id", trace_id>>>>)

\* invocation_metadata(): a sequence of (name, value) pairs, one per name
Metadata ==
    {Md(tp, tid) : tp \in TpMatching \cup TpNotMatching \cup {None},
                   tid \in TraceIdValues \cup {None}}

\* The calls in flight when the handlers run on the worker pool, and the
\* metadata they come with.
PoolCalls == {"c1", "c2"}

PoolMetadata == {<<>>, Md(TpShort, TraceIdHeader), Md(TpWellFormed, None)}

\* the metadata a call may come with: all of Metadata for a single call, the
\* subset PoolMetadata when the calls of the pool are in flight
InvocationMetadata == IF DOMAIN calls = Calls THEN Metadata ELSE PoolMetadata

\* values uuid.uuid4() may return
Uuids == {"u1", "u2"}

(***************************************************************************)
(* grpc_impl.py: the handlers.                                             *)
(***************************************************************************)
IdleCall ==
    [pc |-> "idle", server |-> "", method |-> "", request |-> <<>>,
     metadata |-> <<>>, rc |-> <<>>, violations |-> <<>>, seq |-> 0,
     context |-> NewContext, response |-> <<>>, events |-> <<>>,
     cancelled |-> FALSE, delivered |-> <<>>]

\* The transport sends a yielded event to the caller unless the caller has
\* cancelled the call.
Deliver(call, event) ==
    IF call.cancelled THEN call.delivered ELSE Append(call.delivered, event)

\* Variant: "if not violations:".
HasViolationsNegated(violations) == Len(violations) = 0

\* Variant: the abort is not guarded.
HasViolationsAlways(violations) == TRUE

\* "if violations:" -- a non-empty list is truthy
HasViolations(violations) == Len(violations) > 0

\* rc = new_request_context(context); log_request_start(method, rc)
Start(c, method, request) ==
    /\ calls[c].pc = "idle"
    /\ \E metadata \in InvocationMetadata, uuid4 \in Uuids :
        LET rc == new_request_context(metadata, uuid4)
        IN  /\ calls' = [calls EXCEPT ![c] =
                    [@ EXCEPT !.pc = "validate", !.server = "system_api",
                              !.method = method, !.request = request,
                              !.metadata = metadata, !.rc = rc]]
            /\ log' = Append(log, log_request_start(method, rc))

\* Variant: the violations are collected in one list that all calls share
\* (a module-level list, or a mutable default argument), so a call also
\* reports what the calls before it left there.
Check_shared_list(c, method, violations) ==
    /\ calls[c].pc = "validate"
    /\ calls[c].method = method
    /\ LET others == {d \in DOMAIN calls \ {c} : calls[d].violations # <<>>}
           shared == IF others = {} THEN violations
                     ELSE calls[CHOOSE d \in others : TRUE].violations \o violations
           context == IF HasViolations(shared)
                      THEN abort_invalid_argument(calls[c].context,
                                                  "validation failed", shared)
                      ELSE calls[c].context
       IN  calls' = [calls EXCEPT ![c] =
                [@ EXCEPT !.violations = shared,
                          !.context = context,
                          !.pc = IF context.raised THEN "aborted" ELSE "respond"]]
    /\ UNCHANGED log

\* Variant: log_request_end in a finally block, so that it also runs when the
\* abort raises.
Check_finally(c, method, violations) ==
    /\ calls[c].pc = "validate"
    /\ calls[c].method = method
    /\ LET context == IF HasViolations(violations)
                      THEN abort_invalid_argument(calls[c].context,
                                                  "validation failed", violations)
                      ELSE calls[c].context
       IN  /\ calls' = [calls EXCEPT ![c] =
                [@ EXCEPT !.violations = violations,
                          !.context = context,
                          !.pc = IF context.raised THEN "aborted" ELSE "respond"]]
           /\ log' = IF context.raised
                     THEN Append(log, log_request_end(method, calls[c].rc))
                     ELSE log

\* violations = validate_...(request)
\* if violations: abort_invalid_argument(context, "validation failed", violations)
\* The handler has no return after the abort: it stops there only because
\* the abort raises.
Check(c, method, violations) ==
    /\ calls[c].pc = "validate"
    /\ calls[c].method = method
    /\ LET context == IF HasViolations(violations)
                      THEN abort_invalid_argument(calls[c].context,
                                                  "validation failed", violations)
                      ELSE calls[c].context
       IN  calls' = [calls EXCEPT ![c] =
                [@ EXCEPT !.violations = violations,
                          !.context = context,
                          !.pc = IF context.raised THEN "aborted" ELSE "respond"]]
    /\ UNCHANGED log

\* resp = ...; log_request_end(method, rc); return resp
Return(c, method, resp) ==
    /\ calls[c].pc = "respond"
    /\ calls[c].method = method
    /\ calls' = [calls EXCEPT ![c] = [@ EXCEPT !.response = <<resp>>, !.pc = "done"]]
    /\ log' = Append(log, log_request_end(method, calls[c].rc))

\* types_pb.JobStatus(...) without its timestamps
JobStatus(job_id, message) ==
    [job_id |-> job_id, state |-> "QUEUED", stage |-> "QUEUED",
     progress |-> "0.0", message |-> message]

SubmitJob(c) ==
    \/ \E request \in SubmitJobRequest : Start(c, "JobService.SubmitJob", request)
    \/ Check(c, "JobService.SubmitJob", validate_submit_job(calls[c].request))
    \/ \E uuid4 \in Uuids :
        LET job_id == <<"job_", uuid4>>
        IN  Return(c, "JobService.SubmitJob",
                   [type |-> "JobResponse", job_id |-> job_id,
                    status |-> JobStatus(job_id, "accepted (stub)")])

GetJobStatus(c) ==
    \/ \E request \in JobIdRequest : Start(c, "JobService.GetJobStatus", request)
    \/ Check(c, "JobService.GetJobStatus", validate_job_id(calls[c].request))
    \/ Return(c, "JobService.GetJobStatus",
              [type |-> "JobStatusResponse",
               status |-> JobStatus(calls[c].request.job_id, "stub status")])

CancelJob(c) ==
    \/ \E request \in JobIdRequest : Start(c, "JobService.CancelJob", request)
    \/ Check(c, "JobService.CancelJob", validate_job_id(calls[c].request))
    \/ Return(c, "JobService.CancelJob",
              [type |-> "CancelJobResponse", accepted |-> TRUE])

\* Variant: seq = last_event_seq + 1, without the lower limit of 1.
MaxSecond(a, b) == b

\* max(a, b)
Max(a, b) == IF a >= b THEN a ELSE b

\* types_pb.JobUpdate(...) without its timestamp
JobUpdate(job_id, state, progress, message, event_seq) ==
    [job_id |-> job_id, state |-> state, stage |-> state, progress |-> progress,
     message |-> message, event_seq |-> event_seq]

\* A generator: each yield hands one event to the transport and suspends.
StreamJobUpdates(c) ==
    \/ \E request \in StreamJobUpdatesRequest :
        Start(c, "JobService.StreamJobUpdates", request)
    \/ Check(c, "JobService.StreamJobUpdates", validate_job_id(calls[c].request))
    \/ /\ calls[c].pc = "respond"
       /\ calls[c].method = "JobService.StreamJobUpdates"
       /\ LET seq == Max(1, calls[c].request.last_event_seq + 1)
          IN  calls' = [calls EXCEPT ![c] =
                [@ EXCEPT !.seq = seq,
                          !.events = Append(@, JobUpdate(calls[c].request.job_id,
                                        "QUEUED", "0.0", "queued (stub)", seq)),
                          !.delivered = Deliver(calls[c],
                                        JobUpdate(calls[c].request.job_id,
                                        "QUEUED", "0.0", "queued (stub)", seq)),
                          !.pc = "sleep"]]
       /\ UNCHANGED log
    \/ /\ calls[c].pc = "sleep"
       /\ calls' = [calls EXCEPT ![c] =
                [@ EXCEPT !.events = Append(@, JobUpdate(calls[c].request.job_id,
                                        "DONE", "1.0", "done (stub)", calls[c].seq + 1)),
                          !.delivered = Deliver(calls[c],
                                        JobUpdate(calls[c].request.job_id,
                                        "DONE", "1.0", "done (stub)", calls[c].seq + 1)),
                          !.pc = "yielded"]]
       /\ UNCHANGED log
    \/ /\ calls[c].pc = "yielded"
       /\ calls' = [calls EXCEPT ![c] = [@ EXCEPT !.pc = "done"]]
       /\ log' = Append(log, log_request_end("JobService.StreamJobUpdates", calls[c].rc))

GetJobResults(c) ==
    \/ \E request \in JobIdRequest : Start(c, "JobService.GetJobResults", request)
    \/ Check(c, "JobService.GetJobResults", validate_job_id(calls[c].request))
    \/ Return(c, "JobService.GetJobResults",
              [type |-> "JobResultsResponse", job_id |-> calls[c].request.job_id,
               state |-> "DONE", counts |-> [b00 |-> 512, b11 |-> 512],
               metadata |-> [stub |-> "true"]])

\* No validation: backend_type is optional.
ListDevices(c) ==
    \/ /\ calls[c].pc = "idle"
       /\ \E request \in ListDevicesRequest, metadata \in InvocationMetadata,
               uuid4 \in Uuids :
            LET rc == new_request_context(metadata, uuid4)
            IN  /\ calls' = [calls EXCEPT ![c] =
                        [@ EXCEPT !.pc = "respond", !.server = "system_api",
                                  !.method = "DeviceService.ListDevices",
                                  !.request = request,
                                  !.metadata = metadata, !.rc = rc]]
                /\ log' = Append(log, log_request_start("DeviceService.ListDevices", rc))
    \/ Return(c, "DeviceService.ListDevices",
              [type |-> "ListDevicesResponse",
               devices |-> <<[device_id |-> "sim:local", name |-> "Local simulator",
                              backend_type |-> "simulator", status |-> "ONLINE",
                              queue_depth |-> 0, estimated_wait_sec |-> 0,
                              capabilities |-> [shots |-> "1024"]]>>])

GetDeviceDetails(c) ==
    \/ \E request \in DeviceIdRequest :
        Start(c, "DeviceService.GetDeviceDetails", request)
    \/ Check(c, "DeviceService.GetDeviceDetails", validate_device_id(calls[c].request))
    \/ Return(c, "DeviceService.GetDeviceDetails",
              [type |-> "DeviceDetailsResponse",
               device |-> [device_id |-> calls[c].request.device_id,
                           name |-> "Device (stub)", backend_type |-> "simulator",
                           status |-> "ONLINE"]])

GetDeviceStatus(c) ==
    \/ \E request \in DeviceIdRequest :
        Start(c, "DeviceService.GetDeviceStatus", request)
    \/ Check(c, "DeviceService.GetDeviceStatus", validate_device_id(calls[c].request))
    \/ Return(c, "DeviceService.GetDeviceStatus",
              [type |-> "DeviceStatusResponse",
               device_id |-> calls[c].request.device_id, status |-> "ONLINE",
               queue_depth |-> 0, estimated_wait_sec |-> 0,
               metadata |-> [stub |-> "true"]])

ReserveDevice(c) ==
    \/ \E request \in ReserveDeviceRequest :
        Start(c, "DeviceService.ReserveDevice", request)
    \/ Check(c, "DeviceService.ReserveDevice",
             validate_reserve_device(calls[c].request))
    \/ \E uuid4 \in Uuids :
        Return(c, "DeviceService.ReserveDevice",
               [type |-> "ReserveDeviceResponse", reservation_id |-> <<"rsv_", uuid4>>])

(***************************************************************************)
(* examples/python: the skeleton servers.  A handler is one statement,     *)
(* context.abort(UNIMPLEMENTED, "<Method> is not implemented (skeleton     *)
(* server)"), except ListDevices, which returns an empty list.             *)
(***************************************************************************)
NotImplementedMessage(name) == name \o " is not implemented (skeleton server)"

\* def M(self, request, context): context.abort(UNIMPLEMENTED, ...)
\* A unary handler that aborts returns no response; the streaming one has a
\* yield after the abort, which runs only if the abort does not raise.
SkeletonAbort(c, server, service, name, streaming) ==
    /\ calls[c].pc = "idle"
    /\ LET context == abort(calls[c].context, "UNIMPLEMENTED",
                            NotImplementedMessage(name))
       IN  calls' = [calls EXCEPT ![c] =
                [@ EXCEPT !.server = server,
                          !.method = service \o "." \o name,
                          !.context = context,
                          !.events = IF streaming /\ ~context.raised
                                     THEN <<[type |-> "JobUpdate"]>> ELSE @,
                          !.pc = IF context.raised THEN "aborted" ELSE "done"]]
    /\ UNCHANGED log

\* def ListDevices(self, request, context): return ListDevicesResponse(devices=[])
SkeletonListDevices(c, server, service) ==
    /\ calls[c].pc = "idle"
    /\ calls' = [calls EXCEPT ![c] =
            [@ EXCEPT !.server = server,
                      !.method = service \o ".ListDevices",
                      !.response = <<[type |-> "ListDevicesResponse",
                                      devices |-> <<>>]>>,
                      !.pc = "done"]]
    /\ UNCHANGED log

PublicSkeletonJobService(c) ==
    \/ \E name \in {"SubmitJob", "GetJobStatus", "CancelJob", "GetJobResults"} :
        SkeletonAbort(c, "public_api_skeleton", "JobService", name, FALSE)
    \/ SkeletonAbort(c, "public_api_skeleton", "JobService", "StreamJobUpdates", TRUE)

PublicSkeletonDeviceService(c) ==
    \/ SkeletonListDevices(c, "public_api_skeleton", "DeviceService")
    \/ \E name \in {"GetDeviceDetails", "GetDeviceStatus", "ReserveDevice"} :
        SkeletonAbort(c, "public_api_skeleton", "DeviceService", name, FALSE)

KernelGateway(c) ==
    \E name \in {"EnqueueJob", "GetJobStatus", "CancelJob", "GetJobResults"} :
        SkeletonAbort(c, "internal_api_skeleton", "KernelGateway", name, FALSE)

DriverManagerService(c) ==
    \/ SkeletonListDevices(c, "internal_api_skeleton", "DriverManagerService")
    \/ \E name \in {"GetDeviceStatus", "ExecuteCircuit", "CalibrateDevice"} :
        SkeletonAbort(c, "internal_api_skeleton", "DriverManagerService", name, FALSE)

CompilationService(c) ==
    \E name \in {"CompileCircuit", "OptimizeCircuit", "ValidateCircuit"} :
        SkeletonAbort(c, "internal_api_skeleton", "CompilationService", name, FALSE)

(***************************************************************************)
(* The specification.                                                      *)
(***************************************************************************)
Init ==
    /\ calls = [c \in Calls |-> IdleCall]
    /\ log = <<>>

Next ==
    \/ \E c \in DOMAIN calls : SubmitJob(c)
    \/ \E c \in DOMAIN calls : GetJobStatus(c)
    \/ \E c \in DOMAIN calls : CancelJob(c)
    \/ \E c \in DOMAIN calls : StreamJobUpdates(c)
    \/ \E c \in DOMAIN calls : GetJobResults(c)
    \/ \E c \in DOMAIN calls : ListDevices(c)
    \/ \E c \in DOMAIN calls : GetDeviceDetails(c)
    \/ \E c \in DOMAIN calls : GetDeviceStatus(c)
    \/ \E c \in DOMAIN calls : ReserveDevice(c)
    \/ \E c \in DOMAIN calls : PublicSkeletonJobService(c)
    \/ \E c \in DOMAIN calls : PublicSkeletonDeviceService(c)
    \/ \E c \in DOMAIN calls : KernelGateway(c)
    \/ \E c \in DOMAIN calls : DriverManagerService(c)
    \/ \E c \in DOMAIN calls : CompilationService(c)

Spec == Init /\ [][Next]_vars

(***************************************************************************)
(* Cancellation.  No handler asks context.is_active() or registers a       *)
(* callback: a handler that is running goes on to its next statement       *)
(* whatever the caller does.  The transport stops sending to a cancelled   *)
(* call and no longer resumes a generator that is suspended at a yield.    *)
(***************************************************************************)
\* The caller disconnects while its call is in progress.
Cancel(c) ==
    /\ calls[c].server = "system_api"
    /\ calls[c].pc \in {"validate", "respond", "sleep", "yielded"}
    /\ ~calls[c].cancelled
    /\ calls' = [calls EXCEPT ![c] = [@ EXCEPT !.cancelled = TRUE]]
    /\ UNCHANGED log

\* The transport drops the generator of a cancelled call at the yield where
\* it is suspended; the statements after that yield never run.
Close(c) ==
    /\ calls[c].method = "JobService.StreamJobUpdates"
    /\ calls[c].pc \in {"sleep", "yielded"}
    /\ calls[c].cancelled
    /\ calls' = [calls EXCEPT ![c] = [@ EXCEPT !.pc = "cancelled"]]
    /\ UNCHANGED log

NextCancel ==
    \/ Next
    \/ \E c \in DOMAIN calls : Cancel(c)
    \/ \E c \in DOMAIN calls : Close(c)

SpecCancel == Init /\ [][NextCancel]_vars

(***************************************************************************)
(* The worker pool: grpc_server.serve registers JobService and             *)
(* DeviceService on a ThreadPoolExecutor, so the steps of the handlers of  *)
(* different calls interleave.  Two calls are in flight, with inputs from  *)
(* subsets of the input sets above.                                        *)
(***************************************************************************)
PoolRequest ==
    {r \in SubmitJobRequest :
        \/ r.name = "" /\ r.target = "" /\ r.program = "None"
        \/ r.name = "x" /\ r.target = "x" /\ r.program = "qasm"
                /\ r.qasm.source = "x" /\ r.qasm.version = "x"
        \/ r.name = "x" /\ r.target = "" /\ r.program = "eigen_lang"
                /\ r.eigen_lang.entrypoint = "x" /\ r.eigen_lang.source = ""}
    \cup JobIdRequest
    \cup {r \in StreamJobUpdatesRequest :
            \/ r.job_id = "" /\ r.last_event_seq = 0
            \/ r.job_id = "j1" /\ r.last_event_seq \in {-1, 4}}
    \cup {r \in ListDevicesRequest : r.backend_type = ""}
    \cup DeviceIdRequest
    \cup {r \in ReserveDeviceRequest :
            \/ r.device_id = "" /\ r.ttl_seconds = 0
            \/ r.device_id = "j1" /\ r.ttl_seconds \in {-1, 1}}

\* A step that starts call c takes its inputs from the pool's subsets, and
\* uuid4 gives it a request id no other call has.
PoolInput(c) ==
    calls[c].pc = "idle" =>
        /\ calls'[c].metadata \in PoolMetadata
        /\ calls'[c].request \in PoolRequest
        /\ \A d \in DOMAIN calls \ {c} :
                calls[d].pc # "idle" =>
                    calls[d].rc.request_id # calls'[c].rc.request_id

InitPool ==
    /\ calls = [c \in PoolCalls |-> IdleCall]
    /\ log = <<>>

NextPool ==
    \/ \E c \in DOMAIN calls : SubmitJob(c) /\ PoolInput(c)
    \/ \E c \in DOMAIN calls : GetJobStatus(c) /\ PoolInput(c)
    \/ \E c \in DOMAIN calls : CancelJob(c) /\ PoolInput(c)
    \/ \E c \in DOMAIN calls : StreamJobUpdates(c) /\ PoolInput(c)
    \/ \E c \in DOMAIN calls : GetJobResults(c) /\ PoolInput(c)
    \/ \E c \in DOMAIN calls : ListDevices(c) /\ PoolInput(c)
    \/ \E c \in DOMAIN calls : GetDeviceDetails(c) /\ PoolInput(c)
    \/ \E c \in DOMAIN calls : GetDeviceStatus(c) /\ PoolInput(c)
    \/ \E c \in DOMAIN calls : ReserveDevice(c) /\ PoolInput(c)

SpecPool == InitPool /\ [][NextPool]_vars

(***************************************************************************)
(* Properties.                                                             *)
(***************************************************************************)
SystemApi(c) == calls[c].server = "system_api"

Skeleton(c) == calls[c].server \in {"public_api_skeleton", "internal_api_skeleton"}

\* the handler of call c has run its validation step
Validated(c) == calls[c].pc \notin {"idle", "validate"}

Ended(c) == calls[c].pc \in {"done", "aborted"}

Fields(vs) == [i \in 1..Len(vs) |-> vs[i].field]

FieldSet(vs) == {vs[i].field : i \in 1..Len(vs)}

Count(vs, field) == Cardinality({i \in 1..Len(vs) : vs[i].field = field})

Only(cond, field) == IF cond THEN <<field>> ELSE <<>>

\* the call was terminated by exactly one INVALID_ARGUMENT status
FailedInvalidArgument(c) ==
    /\ calls[c].pc = "aborted"
    /\ Len(calls[c].context.aborts) = 1
    /\ calls[c].context.code = "INVALID_ARGUMENT"

\* the call returned a response, or its stream ran to its end
Responded(c) ==
    /\ calls[c].pc = "done"
    /\ IF calls[c].method = "JobService.StreamJobUpdates"
       THEN Len(calls[c].events) > 0
       ELSE Len(calls[c].response) = 1

\* C1: a call to a JobService or DeviceService handler ends either with a
\* domain response (or a completed stream) or with exactly one
\* INVALID_ARGUMENT error, never both and never neither; once the call has
\* been aborted it has no response and no stream event.
C1_ExactlyOneOutcome ==
    \A c \in DOMAIN calls :
        SystemApi(c) =>
            /\ Len(calls[c].context.aborts) <= 1
            /\ Len(calls[c].context.aborts) > 0 =>
                    /\ calls[c].pc = "aborted"
                    /\ calls[c].response = <<>>
                    /\ calls[c].events = <<>>
            /\ Ended(c) => (Responded(c) /\ calls[c].context.code = "NONE"
                                /\ calls[c].context.aborts = <<>>)
                            \/ (FailedInvalidArgument(c) /\ ~Responded(c)
                                /\ calls[c].response = <<>>)

C1_Witness ==
    \E c \in DOMAIN calls :
        /\ SystemApi(c)
        /\ calls[c].method = "JobService.SubmitJob"
        /\ FailedInvalidArgument(c)

\* C2: a submit-job request with empty name, empty target and no program
\* variant fails with INVALID_ARGUMENT, and the fields of the attached
\* violations are exactly name, target and program.
C2_EmptySubmitJobFields ==
    \A c \in DOMAIN calls :
        ( /\ SystemApi(c)
          /\ calls[c].method = "JobService.SubmitJob"
          /\ Validated(c)
          /\ calls[c].request.name = ""
          /\ calls[c].request.target = ""
          /\ calls[c].request.program = "None" )
        => /\ FailedInvalidArgument(c)
           /\ FieldSet(calls[c].context.details) = {"name", "target", "program"}

C2_Witness ==
    \E c \in DOMAIN calls :
        /\ SystemApi(c)
        /\ calls[c].method = "JobService.SubmitJob"
        /\ calls[c].pc = "aborted"
        /\ calls[c].request.name = ""
        /\ calls[c].request.target = ""
        /\ calls[c].request.program = "None"

\* the fields the rules of submit-job name for a request, in rule order
SubmitJobFields(req) ==
    Only(req.name = "", "name")
    \o Only(req.target = "", "target")
    \o CASE req.program = "None" -> <<"program">>
         [] req.program = "eigen_lang" ->
                Only(req.eigen_lang.entrypoint = "", "eigen_lang.entrypoint")
                \o Only(req.eigen_lang.source = "", "eigen_lang.source")
         [] req.program = "qasm" ->
                Only(req.qasm.source = "", "qasm.source")
                \o Only(req.qasm.version = "", "qasm.version")
         [] req.program = "aqo_ref" ->
                Only(req.aqo_ref.qfs_ref = "", "aqo_ref.qfs_ref")

VariantFields ==
    {"eigen_lang.entrypoint", "eigen_lang.source", "qasm.source", "qasm.version",
     "aqo_ref.qfs_ref"}

\* C3: submit-job validation runs every applicable check: the violations are,
\* in order, name iff name is empty, target iff target is empty, then program
\* ("oneof program is required") iff no variant is set, otherwise the checks
\* of the variant that is set and nothing else; program never comes with a
\* variant field; and all of them are carried by the one failure of the call.
C3_SubmitJobAllViolations ==
    \A c \in DOMAIN calls :
        (SystemApi(c) /\ calls[c].method = "JobService.SubmitJob" /\ Validated(c))
        => LET vs == calls[c].violations
           IN  /\ Fields(vs) = SubmitJobFields(calls[c].request)
               /\ \A i \in 1..Len(vs) :
                    vs[i].field = "program"
                        => vs[i].description = "oneof program is required"
               /\ ~("program" \in FieldSet(vs) /\ FieldSet(vs) \cap VariantFields # {})
               /\ vs # <<>> =>
                    /\ FailedInvalidArgument(c)
                    /\ calls[c].context.details = vs

C3_Witness ==
    \E c \in DOMAIN calls :
        /\ SystemApi(c)
        /\ calls[c].method = "JobService.SubmitJob"
        /\ calls[c].pc = "aborted"
        /\ calls[c].request.program = "qasm"
        /\ Len(calls[c].context.details) = 4

\* C4: for reserve-device there is exactly one violation on ttl_seconds iff
\* ttl_seconds <= 0 and none when it is >= 1, exactly one on device_id iff
\* device_id is empty, and no other; an empty device_id with ttl_seconds = 0
\* fails with INVALID_ARGUMENT carrying both.
C4_ReserveDeviceViolations ==
    \A c \in DOMAIN calls :
        (SystemApi(c) /\ calls[c].method = "DeviceService.ReserveDevice" /\ Validated(c))
        => LET vs == calls[c].violations
               req == calls[c].request
           IN  /\ Count(vs, "ttl_seconds") = (IF req.ttl_seconds <= 0 THEN 1 ELSE 0)
               /\ req.ttl_seconds >= 1 => Count(vs, "ttl_seconds") = 0
               /\ Count(vs, "device_id") = (IF req.device_id = "" THEN 1 ELSE 0)
               /\ FieldSet(vs) \subseteq {"device_id", "ttl_seconds"}
               /\ (req.device_id = "" /\ req.ttl_seconds = 0) =>
                    /\ FailedInvalidArgument(c)
                    /\ FieldSet(calls[c].context.details) = {"device_id", "ttl_seconds"}

C4_Witness ==
    \E c \in DOMAIN calls :
        /\ SystemApi(c)
        /\ calls[c].method = "DeviceService.ReserveDevice"
        /\ calls[c].pc = "aborted"
        /\ calls[c].request.device_id = ""
        /\ calls[c].request.ttl_seconds = 0

\* the identifier field of the lookup-by-id operations
IdField(method) ==
    CASE method \in {"JobService.GetJobStatus", "JobService.CancelJob",
                     "JobService.GetJobResults", "JobService.StreamJobUpdates"}
            -> "job_id"
      [] method \in {"DeviceService.GetDeviceDetails", "DeviceService.GetDeviceStatus"}
            -> "device_id"
      [] OTHER -> "None"

\* C5: a lookup-by-id request with an empty identifier fails with
\* INVALID_ARGUMENT carrying a violation on that identifier field only, and
\* one with a non-empty identifier has no violation.
C5_LookupById ==
    \A c \in DOMAIN calls :
        (SystemApi(c) /\ IdField(calls[c].method) # "None" /\ Validated(c))
        => LET f == IdField(calls[c].method)
           IN  IF calls[c].request[f] = ""
               THEN /\ FailedInvalidArgument(c)
                    /\ Len(calls[c].context.details) = 1
                    /\ calls[c].context.details[1].field = f
               ELSE /\ calls[c].violations = <<>>
                    /\ calls[c].pc # "aborted"
                    /\ calls[c].context.aborts = <<>>

C5_Witness ==
    \E c \in DOMAIN calls :
        /\ SystemApi(c)
        /\ calls[c].method = "DeviceService.GetDeviceStatus"
        /\ calls[c].pc = "aborted"
        /\ calls[c].request.device_id = ""

IsStream(c) == SystemApi(c) /\ calls[c].method = "JobService.StreamJobUpdates"

\* C6: a StreamJobUpdates call with a non-empty job_id and any last_event_seq
\* emits exactly two events and ends; the first has sequence number
\* max(1, last_event_seq + 1), the second the first plus one (4 gives 5 then
\* 6), and the second has progress 1.0 and state DONE.
C6_StreamTwoEvents ==
    \A c \in DOMAIN calls :
        (IsStream(c) /\ calls[c].request.job_id # "")
        => LET ev == calls[c].events
               last == calls[c].request.last_event_seq
               first == IF last + 1 > 1 THEN last + 1 ELSE 1
           IN  /\ calls[c].pc # "aborted"
               /\ Len(ev) <= 2
               /\ Len(ev) = CASE calls[c].pc \in {"validate", "respond"} -> 0
                              [] calls[c].pc = "sleep" -> 1
                              [] OTHER -> 2
               /\ Len(ev) >= 1 =>
                    /\ ev[1].event_seq = first
                    /\ ev[1].event_seq >= 1
                    /\ ev[1].event_seq > last
               /\ Len(ev) = 2 =>
                    /\ ev[2].event_seq = first + 1
                    /\ ev[1].event_seq < ev[2].event_seq
                    /\ ev[2].progress = "1.0"
                    /\ ev[2].state = "DONE"
               /\ (last = 4 /\ Len(ev) = 2) =>
                    (ev[1].event_seq = 5 /\ ev[2].event_seq = 6)

C6_Witness ==
    \E c \in DOMAIN calls :
        /\ IsStream(c)
        /\ calls[c].pc = "done"
        /\ calls[c].request.last_event_seq < 0
        /\ Len(calls[c].events) = 2

\* C7: a StreamJobUpdates call with an empty job_id is terminated with
\* INVALID_ARGUMENT by the validation step and never emits an event.
C7_StreamValidatesFirst ==
    \A c \in DOMAIN calls :
        (IsStream(c) /\ calls[c].request.job_id = "")
        => /\ calls[c].events = <<>>
           /\ Validated(c) => FailedInvalidArgument(c)

C7_Witness ==
    \E c \in DOMAIN calls :
        /\ IsStream(c)
        /\ calls[c].request.job_id = ""
        /\ calls[c].pc = "aborted"

\* the log events of the given kind that carry the request context of call c
LogEvents(c, event) ==
    {i \in 1..Len(log) :
        /\ log[i].event = event
        /\ log[i].request_id = calls[c].rc.request_id
        /\ log[i].trace_id = calls[c].rc.trace_id}

\* C8: every call to a JobService or DeviceService handler that has ended,
\* with a response or with a validation failure, has produced exactly one
\* rpc_start and exactly one rpc_end log event.
C8_TwoLogEventsPerCall ==
    \A c \in DOMAIN calls :
        (SystemApi(c) /\ Ended(c))
        => /\ Cardinality(LogEvents(c, "rpc_start")) = 1
           /\ Cardinality(LogEvents(c, "rpc_end")) = 1

\* C9: every failure raised through abort_invalid_argument has status
\* INVALID_ARGUMENT and at least one {field, description} detail, and every
\* failure of a skeleton server has status UNIMPLEMENTED, a message and no
\* detail; there is no INVALID_ARGUMENT without details and no UNIMPLEMENTED
\* with details.
C9_ErrorCategoriesDistinct ==
    \A c \in DOMAIN calls :
        /\ \A i \in 1..Len(calls[c].context.aborts) :
            LET st == calls[c].context.aborts[i]
            IN  \/ /\ SystemApi(c)
                   /\ st.code = "INVALID_ARGUMENT"
                   /\ Len(st.details) >= 1
                   /\ \A k \in 1..Len(st.details) :
                        DOMAIN st.details[k] = {"field", "description"}
                \/ /\ Skeleton(c)
                   /\ st.code = "UNIMPLEMENTED"
                   /\ st.details = <<>>
                   /\ st.message # ""
        /\ calls[c].context.code = "INVALID_ARGUMENT" =>
                (SystemApi(c) /\ Len(calls[c].context.details) >= 1)
        /\ calls[c].context.code = "UNIMPLEMENTED" =>
                (Skeleton(c) /\ calls[c].context.details = <<>>)
        /\ (Skeleton(c) /\ calls[c].pc = "aborted") =>
                calls[c].context.code = "UNIMPLEMENTED"
        /\ (SystemApi(c) /\ calls[c].pc = "aborted") =>
                calls[c].context.code = "INVALID_ARGUMENT"

C9_Witness ==
    \E c \in DOMAIN calls :
        /\ Skeleton(c)
        /\ calls[c].pc = "aborted"
        /\ calls[c].context.code = "UNIMPLEMENTED"
        /\ calls[c].method = "CompilationService.ValidateCircuit"

\* C10: abort_invalid_argument is only ever called with a non-empty list,
\* the one the validation rule of the call returned; a request without
\* violations never reaches it.
C10_NeverEmptyViolations ==
    \A c \in DOMAIN calls :
        /\ \A i \in 1..Len(calls[c].context.reported) :
            /\ Len(calls[c].context.reported[i]) >= 1
            /\ calls[c].context.reported[i] = calls[c].violations
        /\ (SystemApi(c) /\ Validated(c) /\ calls[c].violations = <<>>) =>
                calls[c].context.reported = <<>>

C10_Witness ==
    \E c \in DOMAIN calls :
        /\ SystemApi(c)
        /\ calls[c].method = "DeviceService.ReserveDevice"
        /\ Len(calls[c].context.reported) = 1
        /\ Len(calls[c].context.reported[1]) = 2

\* the handler of call c has derived its request context
Started(c) == SystemApi(c) /\ calls[c].pc # "idle"

\* the value of a header of the call metadata, None when it is absent
Header(metadata, name) ==
    IF \E i \in 1..Len(metadata) : metadata[i][1] = name
    THEN metadata[CHOOSE i \in 1..Len(metadata) : metadata[i][1] = name][2]
    ELSE None

\* version(2 hex)-traceid(32 hex)-spanid(16 hex)-flags(2 hex)
MatchesFormat(tp) ==
    /\ Len(tp) = 55
    /\ \A k \in 1..55 :
        IF k \in {3, 36, 53} THEN tp[k] = "-" ELSE tp[k] \in HexDigits

\* "00-<32 hex>-<16 hex>-01"
WellFormed0001(tp) ==
    /\ tp # None
    /\ MatchesFormat(tp)
    /\ SubSeq(tp, 1, 2) = <<"0", "0">>
    /\ SubSeq(tp, 54, 55) = <<"0", "1">>

\* C11 as stated: for every metadata with a well-formed traceparent
\* "00-<32 hex>-<16 hex>-01" the derived trace_id is the 32-digit group.
C11_TraceIdFromTraceparent ==
    \A c \in DOMAIN calls :
        (Started(c) /\ WellFormed0001(Header(calls[c].metadata, "traceparent")))
        => calls[c].rc.trace_id
                = SubSeq(Header(calls[c].metadata, "traceparent"), 4, 35)

\* C11 as amended: for every metadata with a well-formed traceparent
\* "00-<32 hex>-<16 hex>-01" and no trace_id header, the derived trace_id is
\* the 32-digit group of the traceparent.
C11_TraceIdFromTraceparentAlone ==
    \A c \in DOMAIN calls :
        ( /\ Started(c)
          /\ WellFormed0001(Header(calls[c].metadata, "traceparent"))
          /\ Header(calls[c].metadata, "trace_id") = None )
        => calls[c].rc.trace_id
                = SubSeq(Header(calls[c].metadata, "traceparent"), 4, 35)

C11_Witness ==
    \E c \in DOMAIN calls :
        /\ Started(c)
        /\ Header(calls[c].metadata, "trace_id") = None
        /\ WellFormed0001(Header(calls[c].metadata, "traceparent"))
        /\ calls[c].rc.trace_id = Rep("0", 16) \o Rep("f", 16)

\* a traceparent header is present and is not of the fixed format
Malformed(metadata) ==
    /\ Header(metadata, "traceparent") # None
    /\ ~MatchesFormat(Header(metadata, "traceparent"))

\* C12 as stated: for every metadata whose traceparent does not match the
\* format, the context is derived without an error, its trace_id is None and
\* its traceparent is the header value as received.
C12_MalformedTraceparent ==
    \A c \in DOMAIN calls :
        (Started(c) /\ Malformed(calls[c].metadata))
        => /\ calls[c].rc.trace_id = None
           /\ calls[c].rc.traceparent = Header(calls[c].metadata, "traceparent")

\* C12 as amended: for every metadata whose traceparent does not match the
\* format the context is derived without an error and its traceparent is the
\* header value as received; its trace_id is None when there is no trace_id
\* header.
C12_MalformedTraceparentAlone ==
    \A c \in DOMAIN calls :
        (Started(c) /\ Malformed(calls[c].metadata))
        => /\ Header(calls[c].metadata, "trace_id") = None
                => calls[c].rc.trace_id = None
           /\ calls[c].rc.traceparent = Header(calls[c].metadata, "traceparent")

C12_Witness ==
    \E c \in DOMAIN calls :
        /\ Started(c)
        /\ Header(calls[c].metadata, "trace_id") = None
        /\ Header(calls[c].metadata, "traceparent") = TpWellFormed \o <<"-", "x">>
        /\ calls[c].rc.trace_id = None
        /\ calls[c].rc.traceparent = TpWellFormed \o <<"-", "x">>

\* C15: the trace_id of the context is the trace_id header when there is one,
\* also when a traceparent with another trace id is present; otherwise the
\* 32-digit group of a traceparent that is present and matches the format;
\* otherwise None.
C15_TraceIdPrecedence ==
    \A c \in DOMAIN calls :
        Started(c)
        => LET tid == Header(calls[c].metadata, "trace_id")
               tp == Header(calls[c].metadata, "traceparent")
           IN  calls[c].rc.trace_id =
                    IF tid # None THEN tid
                    ELSE IF tp # None /\ MatchesFormat(tp) THEN SubSeq(tp, 4, 35)
                    ELSE None

C15_Witness ==
    \E c \in DOMAIN calls :
        /\ Started(c)
        /\ Header(calls[c].metadata, "trace_id") = TraceIdHeader
        /\ Header(calls[c].metadata, "traceparent") = TpWellFormed
        /\ calls[c].rc.trace_id = TraceIdHeader

\* the positions in the log of the events of the given kind with the
\* request_id of call c
LogAt(c, event) ==
    {i \in 1..Len(log) :
        log[i].event = event /\ log[i].request_id = calls[c].rc.request_id}

\* C16: the rpc_start event of a call is logged before its validation, abort,
\* response or first stream event; an rpc_end event is logged only for a call
\* that completes with a response (or after its last stream event), after the
\* rpc_start of that call and with the same request_id; an aborted call has
\* no rpc_end.
C16_LogOrder ==
    /\ \A j \in 1..Len(log) :
        log[j].event = "rpc_end" =>
            \E i \in 1..(j - 1) :
                /\ log[i].event = "rpc_start"
                /\ log[i].request_id = log[j].request_id
                /\ log[i].method = log[j].method
    /\ \A c \in DOMAIN calls :
        SystemApi(c) =>
            \* once anything has happened in the handler, rpc_start is logged
            /\ ( \/ calls[c].pc # "idle"
                 \/ calls[c].violations # <<>>
                 \/ calls[c].context.aborts # <<>>
                 \/ calls[c].response # <<>>
                 \/ calls[c].events # <<>> )
                => Cardinality(LogAt(c, "rpc_start")) = 1
            \* and right after it nothing else has happened yet
            /\ calls[c].pc = "validate" =>
                    /\ calls[c].violations = <<>>
                    /\ calls[c].context.aborts = <<>>
                    /\ calls[c].response = <<>>
                    /\ calls[c].events = <<>>
                    /\ LogAt(c, "rpc_end") = {}
            /\ (calls[c].pc # "idle" /\ LogAt(c, "rpc_end") # {}) =>
                    /\ Cardinality(LogAt(c, "rpc_end")) = 1
                    /\ calls[c].pc = "done"
                    /\ calls[c].context.aborts = <<>>
                    /\ IF calls[c].method = "JobService.StreamJobUpdates"
                       THEN Len(calls[c].events) = 2
                       ELSE Len(calls[c].response) = 1
                    /\ \A i \in LogAt(c, "rpc_start"), j \in LogAt(c, "rpc_end") : i < j
            /\ calls[c].pc = "aborted" => LogAt(c, "rpc_end") = {}

C16_Witness ==
    \E c \in DOMAIN calls :
        /\ SystemApi(c)
        /\ calls[c].method = "JobService.CancelJob"
        /\ calls[c].pc = "aborted"
        /\ Cardinality(LogAt(c, "rpc_start")) = 1
        /\ LogAt(c, "rpc_end") = {}

\* C13: when the caller cancels a StreamJobUpdates call after its first
\* event and before its second, no further event of that call is produced or
\* delivered.
C13_NoEventAfterCancel ==
    [][\A c \in DOMAIN calls :
        ( /\ IsStream(c)
          /\ calls[c].cancelled
          /\ Len(calls[c].events) = 1
          \* the first event went out before the caller cancelled
          /\ Len(calls[c].delivered) = 1 )
        => /\ calls'[c].events = calls[c].events
           /\ calls'[c].delivered = calls[c].delivered]_vars

\* the violation fields the rules of an operation name for a request
ExpectedFields(method, req) ==
    CASE method = "JobService.SubmitJob" -> SubmitJobFields(req)
      [] IdField(method) # "None" ->
            Only(req[IdField(method)] = "", IdField(method))
      [] method = "DeviceService.ReserveDevice" ->
            Only(req.device_id = "", "device_id")
            \o Only(req.ttl_seconds <= 0, "ttl_seconds")
      [] OTHER -> <<>>

\* the identifier a response or a stream event repeats from its request
EchoedIds(c) ==
    LET call == calls[c]
    IN  CASE call.method = "JobService.GetJobStatus" ->
                {call.response[i].status.job_id : i \in 1..Len(call.response)}
          [] call.method = "JobService.GetJobResults" ->
                {call.response[i].job_id : i \in 1..Len(call.response)}
          [] call.method = "JobService.StreamJobUpdates" ->
                {call.events[i].job_id : i \in 1..Len(call.events)}
          [] call.method = "DeviceService.GetDeviceDetails" ->
                {call.response[i].device.device_id : i \in 1..Len(call.response)}
          [] call.method = "DeviceService.GetDeviceStatus" ->
                {call.response[i].device_id : i \in 1..Len(call.response)}
          [] OTHER -> {}

\* what call c has computed so far is determined by its own request and
\* metadata, and its log events carry its own context
OwnOutcome(c) ==
    LET call == calls[c]
        tid == Header(call.metadata, "trace_id")
        tp == Header(call.metadata, "traceparent")
    IN  /\ call.rc.traceparent = tp
        /\ call.rc.trace_id =
                IF tid # None THEN tid
                ELSE IF tp # None /\ MatchesFormat(tp) THEN SubSeq(tp, 4, 35)
                ELSE None
        /\ Validated(c) =>
                /\ Fields(call.violations) = ExpectedFields(call.method, call.request)
                /\ call.violations # <<>> =>
                        (FailedInvalidArgument(c) /\ call.context.details = call.violations)
                /\ call.violations = <<>> => call.context = NewContext
        /\ \A id \in EchoedIds(c) : id = call.request[IdField(call.method)]
        /\ call.method = "JobService.StreamJobUpdates" =>
                \A i \in 1..Len(call.events) :
                    call.events[i].event_seq =
                        (IF call.request.last_event_seq + 1 > 1
                         THEN call.request.last_event_seq + 1 ELSE 1) + (i - 1)
        /\ call.pc = "done" =>
                IF call.method = "JobService.StreamJobUpdates"
                THEN Len(call.events) = 2 ELSE Len(call.response) = 1
        /\ Cardinality(LogAt(c, "rpc_start")) = 1
        /\ \A i \in 1..Len(log) :
                log[i].request_id = call.rc.request_id =>
                    /\ log[i].method = call.method
                    /\ log[i].trace_id = call.rc.trace_id

\* a step is a step of one call: it leaves the other calls as they are, never
\* changes the request, metadata or request context of a call in progress,
\* and only appends to the log
OwnStep ==
    /\ \E c \in DOMAIN calls : \A d \in DOMAIN calls \ {c} : calls'[d] = calls[d]
    /\ \A c \in DOMAIN calls :
        calls[c].pc # "idle" =>
            /\ calls'[c].rc = calls[c].rc
            /\ calls'[c].request = calls[c].request
            /\ calls'[c].metadata = calls[c].metadata
    /\ Len(log') >= Len(log)
    /\ SubSeq(log', 1, Len(log)) = log

\* C14: handlers share no mutable state: under every interleaving of the
\* steps of two calls on the worker pool, the violations, the status and the
\* response of a call are those its own request and metadata determine, and
\* the request context of a call is not written by a step of another call.
C14_NoSharedState ==
    /\ [](\A c \in DOMAIN calls : calls[c].pc # "idle" => OwnOutcome(c))
    /\ [][OwnStep]_vars

\* two calls in flight at once, one failing validation, the other returning
C14_Witness ==
    \E c \in DOMAIN calls, d \in DOMAIN calls :
        /\ c # d
        /\ Len(log) = 3
        /\ log[1].event = "rpc_start" /\ log[1].request_id = calls[c].rc.request_id
        /\ log[2].event = "rpc_start" /\ log[2].request_id = calls[d].rc.request_id
        /\ calls[c].pc = "aborted"
        /\ calls[c].method = "JobService.SubmitJob"
        /\ calls[d].pc = "done"
        /\ calls[d].method = "JobService.GetJobStatus"

=============================================================================
